---- MODULE Spec2Model ----
(***************************************************************************)
(* The workspace store of src/src/state/workspaceStore.ts: the tree of     *)
(* pages, columns and cards, the selection, and every store operation.     *)
(* Beside it the services that run in the same page: the import and export *)
(* service (src/src/services/exportImportService.ts), the theme store      *)
(* (src/unnamed/part_000) and the collaboration service                    *)
(* (src/unnamed/part_001).  Each has its own specification over the same   *)
(* variables: Spec for the store, ImportSpec, ThemeSpec and CollabSpec for *)
(* the services, which share no state with the store or with each other.   *)
(*                                                                         *)
(* An identifier `${prefix}-${generateId()}` is the pair <<prefix, n>>,    *)
(* n drawn from a counter: the generator is taken to return a fresh value  *)
(* on every call.  A Date is a natural number read from the clock `now`;   *)
(* a store operation runs to completion within one reading of the clock,   *)
(* and the clock may advance between two operations.  createdAt is written *)
(* once at creation and read by no operation; the records leave it out.    *)
(*                                                                         *)
(* A store operation is an operator from the store state and the call's    *)
(* arguments to the state its set(...) callback leaves; the action of the  *)
(* same name (capitalised) applies it to arguments drawn from the ids in   *)
(* use and one id that names nothing.  A statement about a call is checked *)
(* in every reachable state, for every argument, on the operator's result. *)
(*                                                                         *)
(* The store is wrapped in persist(...): every set(...) is followed by a   *)
(* write of the state, as JSON, under the store's name in localStorage.    *)
(* storage holds, per name, the JSON value of the text written; a Date is  *)
(* written as its ISO string, here <<"ISO", t>>.  Init is the store        *)
(* created over an empty localStorage; what a later start of the program   *)
(* creates is createStore applied to the storage of the state at hand.     *)
(***************************************************************************)
EXTENDS Integers, Sequences, FiniteSets, TLC

VARIABLES
    workspace,       \* state.workspace
    selectedCardId,  \* state.selectedCardId
    now,             \* the clock read by new Date()
    idCounter,       \* the next value generateId() returns
    steps,           \* how many store operations have been called
    storage,         \* localStorage: the JSON value written under each name
    importCall,      \* the last import: its file, its options, its promise's end
    theme,           \* theme store: the stored preference
    prefersDark,     \* matchMedia('(prefers-color-scheme: dark)').matches
    dataTheme,       \* document.documentElement's data-theme attribute
    darkClass,       \* whether document.documentElement has the class 'dark'
    changeListeners, \* how many handleChange listeners the media query has
    resolvedCall,    \* the last call of getResolvedTheme: what it read and returned
    roomId,          \* collaboration service: this.roomId
    currentUser,     \* this.currentUser, by its id
    users,           \* this.users, by its keys
    eventListeners,  \* this.eventListeners: the event types that have a listener
    userCounter,     \* how many ids the service has generated for users
    timers,          \* the 1-second timers of simulateWebSocketConnection not yet run
    pendingJoins,    \* the joinRoom calls suspended at their await
    notified         \* the listeners the last step has called, by event type

\* The workspace store and what it rests on; the services beside it
storeVars == <<workspace, selectedCardId, now, idCounter, steps, storage>>
themeVars == <<theme, prefersDark, dataTheme, darkClass, changeListeners, resolvedCall>>
collabVars == <<roomId, currentUser, users, eventListeners, userCounter, timers,
                pendingJoins, notified>>
serviceVars == <<importCall, themeVars, collabVars>>
vars == <<storeVars, serviceVars>>

\* ------------------------------------------------------------------ bounds
MaxSteps == 3    \* store operations called in one run
MaxClock == 1    \* ticks of the clock in one run
MaxIndex == 2    \* the largest index a caller passes to moveCard / moveColumn
MaxListeners == 3 \* handleChange listeners added by calls of initializeTheme
MaxJoins == 2     \* calls of joinRoom in one run

\* ------------------------------------------------------------- input sets
Null == <<>>
GhostId == <<"ghost", 0>>
WorkspaceTitles == {"Team"}
PageTitles == {"", "Roadmap"}
Icons == {"icon"}
ColumnTitles == {"Doing"}
CardTitles == {"Task"}
Descriptions == {"Notes"}
Statuses == {"done"}

\* ------------------------------------------------------- array primitives
Min(a, b) == IF a < b THEN a ELSE b
Max(a, b) == IF a > b THEN a ELSE b

\* Array.prototype.findIndex(x => x.id === id): 0-based, -1 when absent
RECURSIVE findIndexFrom(_, _, _)
findIndexFrom(arr, id, i) ==
    IF i > Len(arr) THEN -1
    ELSE IF arr[i].id = id THEN i - 1
    ELSE findIndexFrom(arr, id, i + 1)

findIndex(arr, id) == findIndexFrom(arr, id, 1)

\* arr[i] for a 0-based index
At(arr, i) == arr[i + 1]

\* Array.prototype.filter(x => x.id !== id)
filterOut(arr, id) == SelectSeq(arr, LAMBDA x : x.id # id)

\* Array.prototype.splice(start, deleteCount, ...items): the array afterwards
spliceStart(arr, start) ==
    IF start < 0 THEN Max(Len(arr) + start, 0) ELSE Min(start, Len(arr))

splice(arr, start, deleteCount, items) ==
    LET s == spliceStart(arr, start)
        d == Min(Max(deleteCount, 0), Len(arr) - s)
    IN SubSeq(arr, 1, s) \o items \o SubSeq(arr, s + d + 1, Len(arr))

\* Object.assign(target, updates): the fields of updates overwrite target's
ObjectAssign(target, updates) ==
    [f \in DOMAIN target |->
        IF f \in DOMAIN updates THEN updates[f] ELSE target[f]]

\* ------------------------------------------------------------ the default
createDefaultWorkspace(n, t) ==
    LET pageId == <<"page", n>>
        columnId == <<"col", n + 1>>
        cardId == <<"card", n + 2>>
    IN [title |-> "My Workspace",
        pages |-> <<
            [id |-> pageId,
             title |-> "Welcome",
             icon |-> "wave",
             board |-> [columns |-> <<
                 [id |-> columnId,
                  title |-> "To Do",
                  cards |-> <<
                      [id |-> cardId,
                       title |-> "Welcome to your workspace",
                       description |-> "This is your first card.",
                       columnId |-> columnId,
                       updatedAt |-> t,
                       tags |-> <<"welcome", "getting-started">>,
                       status |-> "todo",
                       metadata |-> <<>>]>>,
                  updatedAt |-> t]>>],
             updatedAt |-> t]>>,
        activePageId |-> pageId,
        updatedAt |-> t]

\* ------------------------------------------------------ store operations
\* Each takes the store state (workspace, selectedCardId) and gives the
\* state the set(...) callback leaves.

setWorkspaceTitle(state, title, t) ==
    [state EXCEPT !.workspace.title = title, !.workspace.updatedAt = t]

\* addPage putting the new page in front of the others
addPage_Unshift(state, title, icon, n, t) ==
    LET newPage == [id |-> <<"page", n>>,
                    title |-> title,
                    icon |-> icon,
                    board |-> [columns |-> <<>>],
                    updatedAt |-> t]
    IN [state EXCEPT !.workspace.pages = <<newPage>> \o @,
                     !.workspace.activePageId = newPage.id,
                     !.workspace.updatedAt = t]

addPage(state, title, icon, n, t) ==
    LET newPage == [id |-> <<"page", n>>,
                    title |-> title,
                    icon |-> icon,
                    board |-> [columns |-> <<>>],
                    updatedAt |-> t]
    IN [state EXCEPT !.workspace.pages = Append(@, newPage),
                     !.workspace.activePageId = newPage.id,
                     !.workspace.updatedAt = t]

\* removePage reading pages[0] before the filter has been applied
removePage_StaleFirst(state, pageId, t) ==
    LET pages == filterOut(state.workspace.pages, pageId)
    IN [state EXCEPT
          !.workspace.pages = pages,
          !.workspace.activePageId =
              IF @ = pageId
              THEN (IF Len(state.workspace.pages) > 0
                    THEN state.workspace.pages[1].id ELSE Null)
              ELSE @,
          !.workspace.updatedAt = t]

removePage(state, pageId, t) ==
    LET pages == filterOut(state.workspace.pages, pageId)
    IN [state EXCEPT
          !.workspace.pages = pages,
          !.workspace.activePageId =
              IF @ = pageId
              THEN (IF Len(pages) > 0 THEN pages[1].id ELSE Null)
              ELSE @,
          !.workspace.updatedAt = t]

renamePage(state, pageId, title, t) ==
    LET pi == findIndex(state.workspace.pages, pageId)
    IN IF pi # -1
       THEN [state EXCEPT !.workspace.pages[pi + 1].title = title,
                          !.workspace.pages[pi + 1].updatedAt = t,
                          !.workspace.updatedAt = t]
       ELSE state

setActivePage(state, pageId, t) ==
    [state EXCEPT !.workspace.activePageId = pageId,
                  !.workspace.updatedAt = t]

updatePageIcon(state, pageId, icon, t) ==
    LET pi == findIndex(state.workspace.pages, pageId)
    IN IF pi # -1
       THEN [state EXCEPT !.workspace.pages[pi + 1].icon = icon,
                          !.workspace.pages[pi + 1].updatedAt = t,
                          !.workspace.updatedAt = t]
       ELSE state

addColumn(state, pageId, title, n, t) ==
    LET pi == findIndex(state.workspace.pages, pageId)
        newColumn == [id |-> <<"col", n>>,
                      title |-> title,
                      cards |-> <<>>,
                      updatedAt |-> t]
    IN IF pi # -1
       THEN [state EXCEPT
               !.workspace.pages[pi + 1].board.columns = Append(@, newColumn),
               !.workspace.pages[pi + 1].updatedAt = t,
               !.workspace.updatedAt = t]
       ELSE state

removeColumn(state, pageId, columnId, t) ==
    LET pi == findIndex(state.workspace.pages, pageId)
    IN IF pi # -1
       THEN [state EXCEPT
               !.workspace.pages[pi + 1].board.columns = filterOut(@, columnId),
               !.workspace.pages[pi + 1].updatedAt = t,
               !.workspace.updatedAt = t]
       ELSE state

renameColumn(state, pageId, columnId, title, t) ==
    LET pi == findIndex(state.workspace.pages, pageId)
        ci == IF pi # -1
              THEN findIndex(At(state.workspace.pages, pi).board.columns, columnId)
              ELSE -1
    IN IF ci # -1
       THEN [state EXCEPT
               !.workspace.pages[pi + 1].board.columns[ci + 1].title = title,
               !.workspace.pages[pi + 1].board.columns[ci + 1].updatedAt = t,
               !.workspace.pages[pi + 1].updatedAt = t,
               !.workspace.updatedAt = t]
       ELSE state

\* moveColumn exchanging the column with the one at targetIndex
moveColumn_Swap(state, pageId, columnId, targetIndex, t) ==
    LET pi == findIndex(state.workspace.pages, pageId)
        columns == At(state.workspace.pages, pi).board.columns
        currentIndex == IF pi # -1 THEN findIndex(columns, columnId) ELSE -1
        other == spliceStart(splice(columns, currentIndex, 1, <<>>), targetIndex)
    IN IF currentIndex # -1
       THEN [state EXCEPT
               !.workspace.pages[pi + 1].board.columns =
                   [columns EXCEPT ![currentIndex + 1] = columns[other + 1],
                                   ![other + 1] = columns[currentIndex + 1]],
               !.workspace.pages[pi + 1].updatedAt = t,
               !.workspace.updatedAt = t]
       ELSE state

\* moveColumn reading targetIndex against the sequence before the removal
moveColumn_PreRemovalIndex(state, pageId, columnId, targetIndex, t) ==
    LET pi == findIndex(state.workspace.pages, pageId)
        columns == At(state.workspace.pages, pi).board.columns
        currentIndex == IF pi # -1 THEN findIndex(columns, columnId) ELSE -1
        column == At(columns, currentIndex)
        removed == splice(columns, currentIndex, 1, <<>>)
        insertIndex == IF targetIndex > currentIndex
                       THEN targetIndex - 1 ELSE targetIndex
    IN IF currentIndex # -1
       THEN [state EXCEPT
               !.workspace.pages[pi + 1].board.columns =
                   splice(removed, insertIndex, 0, <<column>>),
               !.workspace.pages[pi + 1].updatedAt = t,
               !.workspace.updatedAt = t]
       ELSE state

moveColumn(state, pageId, columnId, targetIndex, t) ==
    LET pi == findIndex(state.workspace.pages, pageId)
        columns == At(state.workspace.pages, pi).board.columns
        currentIndex == IF pi # -1 THEN findIndex(columns, columnId) ELSE -1
        column == At(columns, currentIndex)
        removed == splice(columns, currentIndex, 1, <<>>)
    IN IF currentIndex # -1
       THEN [state EXCEPT
               !.workspace.pages[pi + 1].board.columns =
                   splice(removed, targetIndex, 0, <<column>>),
               !.workspace.pages[pi + 1].updatedAt = t,
               !.workspace.updatedAt = t]
       ELSE state

\* addCard that does not refresh the column it adds to
addCard_ColumnNotTouched(state, pageId, columnId, text, n, t) ==
    LET pi == findIndex(state.workspace.pages, pageId)
        ci == IF pi # -1
              THEN findIndex(At(state.workspace.pages, pi).board.columns, columnId)
              ELSE -1
        newCard == [id |-> <<"card", n>>,
                    title |-> text.title,
                    description |-> IF "description" \in DOMAIN text
                                    THEN text.description ELSE "",
                    columnId |-> columnId,
                    updatedAt |-> t,
                    tags |-> <<>>,
                    status |-> "todo",
                    metadata |-> <<>>]
    IN IF ci # -1
       THEN [state EXCEPT
               !.workspace.pages[pi + 1].board.columns[ci + 1].cards =
                   Append(@, newCard),
               !.workspace.pages[pi + 1].updatedAt = t,
               !.workspace.updatedAt = t]
       ELSE state

\* addCard putting the new card in front of the others
addCard_Unshift(state, pageId, columnId, text, n, t) ==
    LET pi == findIndex(state.workspace.pages, pageId)
        ci == IF pi # -1
              THEN findIndex(At(state.workspace.pages, pi).board.columns, columnId)
              ELSE -1
        newCard == [id |-> <<"card", n>>,
                    title |-> text.title,
                    description |-> IF "description" \in DOMAIN text
                                    THEN text.description ELSE "",
                    columnId |-> columnId,
                    updatedAt |-> t,
                    tags |-> <<>>,
                    status |-> "todo",
                    metadata |-> <<>>]
    IN IF ci # -1
       THEN [state EXCEPT
               !.workspace.pages[pi + 1].board.columns[ci + 1].cards =
                   <<newCard>> \o @,
               !.workspace.pages[pi + 1].board.columns[ci + 1].updatedAt = t,
               !.workspace.pages[pi + 1].updatedAt = t,
               !.workspace.updatedAt = t]
       ELSE state

\* title and description arrive as text; description is '' when left out
addCard(state, pageId, columnId, text, n, t) ==
    LET pi == findIndex(state.workspace.pages, pageId)
        ci == IF pi # -1
              THEN findIndex(At(state.workspace.pages, pi).board.columns, columnId)
              ELSE -1
        newCard == [id |-> <<"card", n>>,
                    title |-> text.title,
                    description |-> IF "description" \in DOMAIN text
                                    THEN text.description ELSE "",
                    columnId |-> columnId,
                    updatedAt |-> t,
                    tags |-> <<>>,
                    status |-> "todo",
                    metadata |-> <<>>]
    IN IF ci # -1
       THEN [state EXCEPT
               !.workspace.pages[pi + 1].board.columns[ci + 1].cards =
                   Append(@, newCard),
               !.workspace.pages[pi + 1].board.columns[ci + 1].updatedAt = t,
               !.workspace.pages[pi + 1].updatedAt = t,
               !.workspace.updatedAt = t]
       ELSE state

removeCard(state, pageId, columnId, cardId, t) ==
    LET pi == findIndex(state.workspace.pages, pageId)
        ci == IF pi # -1
              THEN findIndex(At(state.workspace.pages, pi).board.columns, columnId)
              ELSE -1
    IN IF ci # -1
       THEN [state EXCEPT
               !.workspace.pages[pi + 1].board.columns[ci + 1].cards =
                   filterOut(@, cardId),
               !.workspace.pages[pi + 1].board.columns[ci + 1].updatedAt = t,
               !.workspace.pages[pi + 1].updatedAt = t,
               !.workspace.updatedAt = t,
               !.selectedCardId = IF @ = cardId THEN Null ELSE @]
       ELSE state

\* updateCard refreshing the workspace timestamp outside the lookups
updateCard_TouchOnMiss(state, pageId, columnId, cardId, updates, t) ==
    LET pi == findIndex(state.workspace.pages, pageId)
        ci == IF pi # -1
              THEN findIndex(At(state.workspace.pages, pi).board.columns, columnId)
              ELSE -1
        ki == IF ci # -1
              THEN findIndex(At(At(state.workspace.pages, pi).board.columns, ci).cards,
                             cardId)
              ELSE -1
    IN IF ki # -1
       THEN [state EXCEPT
               !.workspace.pages[pi + 1].board.columns[ci + 1].cards[ki + 1] =
                   ObjectAssign(ObjectAssign(@, updates), [updatedAt |-> t]),
               !.workspace.pages[pi + 1].board.columns[ci + 1].updatedAt = t,
               !.workspace.pages[pi + 1].updatedAt = t,
               !.workspace.updatedAt = t]
       ELSE [state EXCEPT !.workspace.updatedAt = t]

\* updateCard merging the caller's fields after its own updatedAt
updateCard_UpdatesLast(state, pageId, columnId, cardId, updates, t) ==
    LET pi == findIndex(state.workspace.pages, pageId)
        ci == IF pi # -1
              THEN findIndex(At(state.workspace.pages, pi).board.columns, columnId)
              ELSE -1
        ki == IF ci # -1
              THEN findIndex(At(At(state.workspace.pages, pi).board.columns, ci).cards,
                             cardId)
              ELSE -1
    IN IF ki # -1
       THEN [state EXCEPT
               !.workspace.pages[pi + 1].board.columns[ci + 1].cards[ki + 1] =
                   ObjectAssign(ObjectAssign(@, [updatedAt |-> t]), updates),
               !.workspace.pages[pi + 1].board.columns[ci + 1].updatedAt = t,
               !.workspace.pages[pi + 1].updatedAt = t,
               !.workspace.updatedAt = t]
       ELSE state

updateCard(state, pageId, columnId, cardId, updates, t) ==
    LET pi == findIndex(state.workspace.pages, pageId)
        ci == IF pi # -1
              THEN findIndex(At(state.workspace.pages, pi).board.columns, columnId)
              ELSE -1
        ki == IF ci # -1
              THEN findIndex(At(At(state.workspace.pages, pi).board.columns, ci).cards,
                             cardId)
              ELSE -1
    IN IF ki # -1
       THEN [state EXCEPT
               !.workspace.pages[pi + 1].board.columns[ci + 1].cards[ki + 1] =
                   ObjectAssign(ObjectAssign(@, updates), [updatedAt |-> t]),
               !.workspace.pages[pi + 1].board.columns[ci + 1].updatedAt = t,
               !.workspace.pages[pi + 1].updatedAt = t,
               !.workspace.updatedAt = t]
       ELSE state

\* moveCard, first half: find the card and take it out of the source column.
\* Gives the state after the removal and the captured card (Null on a miss).
moveCardRemove(state, source, t) ==
    LET pi == findIndex(state.workspace.pages, source.pageId)
        ci == IF pi # -1
              THEN findIndex(At(state.workspace.pages, pi).board.columns,
                             source.columnId)
              ELSE -1
        cards == At(At(state.workspace.pages, pi).board.columns, ci).cards
        cardIndex == IF ci # -1 THEN findIndex(cards, source.cardId) ELSE -1
    IN IF cardIndex # -1
       THEN [movedCard |-> At(cards, cardIndex),
             state |-> [state EXCEPT
                 !.workspace.pages[pi + 1].board.columns[ci + 1].cards =
                     splice(@, cardIndex, 1, <<>>),
                 !.workspace.pages[pi + 1].board.columns[ci + 1].updatedAt = t,
                 !.workspace.pages[pi + 1].updatedAt = t]]
       ELSE [movedCard |-> Null, state |-> state]

\* moveCard, second half: put the captured card into the target column.
moveCardInsert(state, movedCard, target, t) ==
    LET pi == findIndex(state.workspace.pages, target.pageId)
        ci == IF pi # -1
              THEN findIndex(At(state.workspace.pages, pi).board.columns,
                             target.columnId)
              ELSE -1
        cards == At(At(state.workspace.pages, pi).board.columns, ci).cards
        insertIndex == IF "index" \in DOMAIN target THEN target.index
                       ELSE Len(cards)
        card == [movedCard EXCEPT !.columnId = target.columnId,
                                  !.updatedAt = t]
    IN IF ci # -1
       THEN [state EXCEPT
               !.workspace.pages[pi + 1].board.columns[ci + 1].cards =
                   splice(@, insertIndex, 0, <<card>>),
               !.workspace.pages[pi + 1].board.columns[ci + 1].updatedAt = t,
               !.workspace.pages[pi + 1].updatedAt = t]
       ELSE state

moveCard(state, source, target, t) ==
    LET r == moveCardRemove(state, source, t)
        s == IF r.movedCard # Null
             THEN moveCardInsert(r.state, r.movedCard, target, t)
             ELSE r.state
    IN [s EXCEPT !.workspace.updatedAt = t]

setSelectedCardId(state, cardId) ==
    [state EXCEPT !.selectedCardId = cardId]

\* ------------------------------------------------------------ persistence
\* Date.prototype.toJSON: the ISO string of the date
toISOString(t) == <<"ISO", t>>

\* JSON.stringify of the tree: every updatedAt: Date written as its ISO string
toJSON(ws) ==
    [ws EXCEPT
        !.updatedAt = toISOString(@),
        !.pages = [i \in DOMAIN @ |->
            [@[i] EXCEPT
                !.updatedAt = toISOString(@),
                !.board.columns = [j \in DOMAIN @ |->
                    [@[j] EXCEPT
                        !.updatedAt = toISOString(@),
                        !.cards = [k \in DOMAIN @ |->
                            [@[k] EXCEPT !.updatedAt = toISOString(@)]]]]]]]

\* persist options: the name the state is written under, and its version
persistName == "workspace-storage"
persistVersion == 1

\* What persist writes after a set(...): no partialize option is given, so the
\* whole state goes in, the functions dropped and the dates turned to strings
\* by JSON.stringify
setItem(state) ==
    [state |-> [workspace |-> toJSON(state.workspace),
                selectedCardId |-> state.selectedCardId],
     version |-> persistVersion]

\* Store creation: persist builds the initial state with the default
\* workspace, then reads localStorage under the store's name.  No snapshot:
\* the initial state stays.  A snapshot whose version is a number other than
\* the store's: no migrate option is given, so the snapshot is not loaded and
\* the initial state stays.  Otherwise the snapshot's fields are laid over the
\* initial state (the default shallow merge): the workspace is the parsed JSON
\* value, its dates still strings.
rehydrate_AnyVersion(initial, stored) ==
    IF persistName \notin DOMAIN stored THEN initial
    ELSE ObjectAssign(initial, stored[persistName].state)

rehydrate(initial, stored) ==
    IF persistName \notin DOMAIN stored THEN initial
    ELSE IF stored[persistName].version # persistVersion THEN initial
    ELSE ObjectAssign(initial, stored[persistName].state)

createStore(stored, n, t) ==
    rehydrate([workspace |-> createDefaultWorkspace(n, t),
               selectedCardId |-> Null], stored)

\* localStorage with nothing written under any name
EmptyStorage == <<>>

\* The version numbers a snapshot found at startup may carry
SnapshotVersions == {0, 1, 2}

\* findCard / findColumn: the first hit in page order, then column order
RECURSIVE findColumnFrom(_, _, _)
findColumnFrom(pages, columnId, i) ==
    IF i > Len(pages) THEN Null
    ELSE LET ci == findIndex(pages[i].board.columns, columnId)
         IN IF ci # -1
            THEN [column |-> At(pages[i].board.columns, ci),
                  pageId |-> pages[i].id]
            ELSE findColumnFrom(pages, columnId, i + 1)

findColumn(state, columnId) ==
    findColumnFrom(state.workspace.pages, columnId, 1)

\* A findCard that reports the columnId field stored on the card
RECURSIVE findCardInColumns_CardColumnId(_, _, _, _)
findCardInColumns_CardColumnId(page, columns, cardId, j) ==
    IF j > Len(columns) THEN Null
    ELSE LET ki == findIndex(columns[j].cards, cardId)
         IN IF ki # -1
            THEN [card |-> At(columns[j].cards, ki),
                  pageId |-> page.id,
                  columnId |-> At(columns[j].cards, ki).columnId]
            ELSE findCardInColumns_CardColumnId(page, columns, cardId, j + 1)

RECURSIVE findCardInColumns(_, _, _, _)
findCardInColumns(page, columns, cardId, j) ==
    IF j > Len(columns) THEN Null
    ELSE LET ki == findIndex(columns[j].cards, cardId)
         IN IF ki # -1
            THEN [card |-> At(columns[j].cards, ki),
                  pageId |-> page.id,
                  columnId |-> columns[j].id]
            ELSE findCardInColumns(page, columns, cardId, j + 1)

RECURSIVE findCardFrom(_, _, _)
findCardFrom(pages, cardId, i) ==
    IF i > Len(pages) THEN Null
    ELSE LET r == findCardInColumns(pages[i], pages[i].board.columns, cardId, 1)
         IN IF r # Null THEN r ELSE findCardFrom(pages, cardId, i + 1)

findCard(state, cardId) ==
    findCardFrom(state.workspace.pages, cardId, 1)

\* ---------------------------------------------------------------- views
State == [workspace |-> workspace, selectedCardId |-> selectedCardId]

Range(seq) == {seq[i] : i \in DOMAIN seq}

PagesOf(ws) == Range(ws.pages)
ColumnsOf(ws) == UNION {Range(p.board.columns) : p \in PagesOf(ws)}
CardsOf(ws) == UNION {Range(c.cards) : c \in ColumnsOf(ws)}

PageIds(ws) == {p.id : p \in PagesOf(ws)}
ColumnIds(ws) == {c.id : c \in ColumnsOf(ws)}
CardIds(ws) == {k.id : k \in CardsOf(ws)}

\* Whether the lookups of an operation succeed: pages.find, then columns.find
pageFound(state, pageId) == findIndex(state.workspace.pages, pageId) # -1

columnFound(state, pageId, columnId) ==
    LET pi == findIndex(state.workspace.pages, pageId)
    IN /\ pi # -1
       /\ findIndex(At(state.workspace.pages, pi).board.columns, columnId) # -1

\* The column the lookups of an operation reach (page by id, then column by id)
columnAt(state, pageId, columnId) ==
    LET page == At(state.workspace.pages, findIndex(state.workspace.pages, pageId))
    IN At(page.board.columns, findIndex(page.board.columns, columnId))

\* The source of a moveCard names a card that its source column holds
sourceFound(state, source) ==
    /\ columnFound(state, source.pageId, source.columnId)
    /\ findIndex(columnAt(state, source.pageId, source.columnId).cards,
                 source.cardId) # -1

\* The arguments a caller may pass: every id in use, and one that names nothing
PageArgs == PageIds(workspace) \cup {GhostId}
ColumnArgs == ColumnIds(workspace) \cup {GhostId}
CardArgs == CardIds(workspace) \cup {GhostId}
IndexArgs == -1 .. MaxIndex

Sources == [pageId : PageArgs, columnId : ColumnArgs, cardId : CardArgs]
Targets == [pageId : PageArgs, columnId : ColumnArgs]
             \cup [pageId : PageArgs, columnId : ColumnArgs, index : IndexArgs]

\* addCard's title and optional description
CardTexts == [title : CardTitles] \cup [title : CardTitles, description : Descriptions]

\* Partial<Card>: the fields a caller may hand to updateCard
Updates ==
    {[title |-> x] : x \in CardTitles}
    \cup {[status |-> x] : x \in Statuses}
    \cup {[columnId |-> x] : x \in ColumnArgs}
    \cup {[id |-> x] : x \in CardArgs}
    \cup {[updatedAt |-> MaxClock + 1]}

\* ----------------------------------------------------------------- steps
\* The theme store of src/unnamed/part_000.
Themes == {"light", "dark", "system"}

themePersistName == "theme-storage"

\* What persist writes for the theme store: its state, under the version 0
\* that persist takes when the options name none
themeSetItem(t) == [state |-> [theme |-> t], version |-> 0]

\* getResolvedTheme that takes 'system' for light whatever the OS prefers
getResolvedTheme_SystemIsLight(t, matches) ==
    IF t = "system" THEN "light" ELSE t

\* getResolvedTheme: get().theme, and for 'system' what the media query says
getResolvedTheme(t, matches) ==
    IF t = "system" THEN (IF matches THEN "dark" ELSE "light") ELSE t

\* setAttribute('data-theme', resolved); classList.toggle('dark', resolved === 'dark')
ApplyToDocument(resolved) ==
    /\ dataTheme' = resolved
    /\ darkClass' = (resolved = "dark")

\* The theme store after creation over a storage that holds the preference
\* stored ("none": nothing stored), the OS preferring dark or not: the state
\* is rehydrated, and onRehydrateStorage has applied the resolved theme and
\* called initializeTheme, which has added its listener
ThemeCreated(stored, matches) ==
    LET t == IF stored = "none" THEN "system" ELSE stored
    IN /\ theme = t
       /\ prefersDark = matches
       /\ dataTheme = getResolvedTheme(t, matches)
       /\ darkClass = (getResolvedTheme(t, matches) = "dark")
       /\ changeListeners = 1
       /\ resolvedCall = Null

\* The workspace store after creation over a storage that holds no snapshot
StoreCreated(t) ==
    LET created == createStore(EmptyStorage, 1, 0)
    IN /\ workspace = created.workspace
       /\ selectedCardId = created.selectedCardId
       /\ now = 0
       /\ idCounter = 4
       /\ steps = 0
       /\ storage = (persistName :> setItem(created))
                         @@ (themePersistName :> themeSetItem(t))

\* The collaboration service of src/unnamed/part_001, as constructed
CollaborationCreated ==
    /\ roomId = Null
    /\ currentUser = Null
    /\ users = {}
    /\ eventListeners = {}
    /\ userCounter = 0
    /\ timers = 0
    /\ pendingJoins = 0
    /\ notified = {}

Init ==
    /\ StoreCreated("system")
    /\ importCall = Null
    /\ ThemeCreated("none", FALSE)
    /\ CollaborationCreated

\* A call of a store operation leaves the state its set(...) callback gives
Call(state) ==
    /\ steps < MaxSteps
    /\ steps' = steps + 1
    /\ workspace' = state.workspace
    /\ selectedCardId' = state.selectedCardId
    /\ storage' = (persistName :> setItem(state)) @@ storage
    /\ UNCHANGED <<now, serviceVars>>

Tick ==
    /\ now < MaxClock
    /\ now' = now + 1
    /\ UNCHANGED <<workspace, selectedCardId, idCounter, steps, storage, serviceVars>>

SetWorkspaceTitle ==
    \E title \in WorkspaceTitles :
        /\ Call(setWorkspaceTitle(State, title, now))
        /\ UNCHANGED idCounter

AddPage ==
    \E title \in PageTitles, icon \in Icons :
        /\ Call(addPage(State, title, icon, idCounter, now))
        /\ idCounter' = idCounter + 1

RemovePage ==
    \E pageId \in PageArgs :
        /\ Call(removePage(State, pageId, now))
        /\ UNCHANGED idCounter

RenamePage ==
    \E pageId \in PageArgs, title \in PageTitles :
        /\ Call(renamePage(State, pageId, title, now))
        /\ UNCHANGED idCounter

SetActivePage ==
    \E pageId \in PageArgs :
        /\ Call(setActivePage(State, pageId, now))
        /\ UNCHANGED idCounter

UpdatePageIcon ==
    \E pageId \in PageArgs, icon \in Icons :
        /\ Call(updatePageIcon(State, pageId, icon, now))
        /\ UNCHANGED idCounter

AddColumn ==
    \E pageId \in PageArgs, title \in ColumnTitles :
        /\ Call(addColumn(State, pageId, title, idCounter, now))
        /\ idCounter' = IF pageFound(State, pageId)
                        THEN idCounter + 1 ELSE idCounter

RemoveColumn ==
    \E pageId \in PageArgs, columnId \in ColumnArgs :
        /\ Call(removeColumn(State, pageId, columnId, now))
        /\ UNCHANGED idCounter

RenameColumn ==
    \E pageId \in PageArgs, columnId \in ColumnArgs, title \in ColumnTitles :
        /\ Call(renameColumn(State, pageId, columnId, title, now))
        /\ UNCHANGED idCounter

MoveColumn ==
    \E pageId \in PageArgs, columnId \in ColumnArgs,
       targetIndex \in IndexArgs :
        /\ Call(moveColumn(State, pageId, columnId, targetIndex, now))
        /\ UNCHANGED idCounter

AddCard ==
    \E pageId \in PageArgs, columnId \in ColumnArgs, text \in CardTexts :
        /\ Call(addCard(State, pageId, columnId, text, idCounter, now))
        /\ idCounter' = IF columnFound(State, pageId, columnId)
                        THEN idCounter + 1 ELSE idCounter

RemoveCard ==
    \E pageId \in PageArgs, columnId \in ColumnArgs, cardId \in CardArgs :
        /\ Call(removeCard(State, pageId, columnId, cardId, now))
        /\ UNCHANGED idCounter

\* updates is read only once the card is found (line 310): for a card that is
\* not found one updates record stands for all
UpdateCard ==
    \E pageId \in PageArgs, columnId \in ColumnArgs, cardId \in CardArgs :
        \E updates \in IF sourceFound(State, [pageId |-> pageId,
                                              columnId |-> columnId,
                                              cardId |-> cardId])
                        THEN Updates ELSE {[title |-> "Task"]} :
            /\ Call(updateCard(State, pageId, columnId, cardId, updates, now))
            /\ UNCHANGED idCounter

\* target is read only once the card has been taken out (line 339): for a
\* source that is not found one target stands for all
MoveCard ==
    \E source \in Sources :
        \E target \in IF sourceFound(State, source)
                       THEN Targets
                       ELSE {[pageId |-> source.pageId,
                              columnId |-> source.columnId]} :
            /\ Call(moveCard(State, source, target, now))
            /\ UNCHANGED idCounter

SetSelectedCardId ==
    \E cardId \in CardArgs \cup {Null} :
        /\ Call(setSelectedCardId(State, cardId))
        /\ UNCHANGED idCounter

\* findCard and findColumn read the state with get() and never call set(...)
FindCard ==
    \E cardId \in CardArgs :
        LET found == findCard(State, cardId)
        IN UNCHANGED vars

FindColumn ==
    \E columnId \in ColumnArgs :
        LET found == findColumn(State, columnId)
        IN UNCHANGED vars

Next ==
    \/ Tick
    \/ SetWorkspaceTitle
    \/ AddPage
    \/ RemovePage
    \/ RenamePage
    \/ SetActivePage
    \/ UpdatePageIcon
    \/ AddColumn
    \/ RemoveColumn
    \/ RenameColumn
    \/ MoveColumn
    \/ AddCard
    \/ RemoveCard
    \/ UpdateCard
    \/ MoveCard
    \/ SetSelectedCardId
    \/ FindCard
    \/ FindColumn

Spec == Init /\ [][Next]_vars

\* ------------------------------------------------ export / import service
\* src/src/services/exportImportService.ts.  A JSON value carries its type:
\* the import code tests truthiness, typeof and Array.isArray, and reading a
\* property of null or undefined throws.
Undefined == [type |-> "undefined"]
JNull == [type |-> "null"]
JString(s) == [type |-> "string", empty |-> (s = ""), value |-> s]
\* an id `${prefix}-${generateId()}` is a string that is never empty
JIdString(id) == [type |-> "string", empty |-> FALSE, value |-> id]
JNumber(n) == [type |-> "number", value |-> n]
JArray(items) == [type |-> "array", items |-> items]
JObject(fields) == [type |-> "object", fields |-> fields]

\* !!v
truthy(v) ==
    CASE v.type \in {"undefined", "null"} -> FALSE
      [] v.type = "string" -> ~v.empty
      [] v.type = "number" -> v.value # 0
      [] OTHER -> TRUE

\* typeof v === 'object'
typeofObject(v) == v.type \in {"object", "array", "null"}

isArray(v) == v.type = "array"

\* v.f throws a TypeError when v is null or undefined
readThrows(v) == v.type \in {"undefined", "null"}

\* v.f otherwise: the field, or undefined when v has none of that name
prop(v, f) ==
    IF v.type = "object" /\ f \in DOMAIN v.fields THEN v.fields[f] ELSE Undefined

\* What a try block or a promise ends with: a value, or the error thrown
Returned(value) == [ok |-> TRUE, value |-> value]
Thrown(message) == [ok |-> FALSE, error |-> message]

\* JSON.stringify of the store's records: a Date becomes its ISO string
cardToJSON(card) ==
    JObject([id |-> JIdString(card.id),
             columnId |-> JIdString(card.columnId),
             title |-> JString(card.title),
             description |-> JString(card.description),
             status |-> JString(card.status),
             tags |-> JArray([i \in DOMAIN card.tags |-> JString(card.tags[i])]),
             updatedAt |-> JIdString(toISOString(card.updatedAt))])

columnToJSON(column) ==
    JObject([id |-> JIdString(column.id),
             title |-> JString(column.title),
             cards |-> JArray([k \in DOMAIN column.cards |-> cardToJSON(column.cards[k])]),
             updatedAt |-> JIdString(toISOString(column.updatedAt))])

pageToJSON(page) ==
    JObject([id |-> JIdString(page.id),
             title |-> JString(page.title),
             icon |-> JString(page.icon),
             board |-> JObject([columns |->
                 JArray([j \in DOMAIN page.board.columns |->
                            columnToJSON(page.board.columns[j])])]),
             updatedAt |-> JIdString(toISOString(page.updatedAt))])

pagesToJSON(pages) == JArray([i \in DOMAIN pages |-> pageToJSON(pages[i])])

\* ExportOptions as the JSON export uses them; selectedPages may be left out.
\* (dateRange filters cards by createdAt, which the records leave out: the
\* options here never carry one.)
ExportOptions ==
    {[format |-> "json", includeMetadata |-> TRUE, includeAnalytics |-> FALSE]}

\* prepareExportData: the pages, filtered when selectedPages names some
prepareExportData(ws, options, t) ==
    LET pages == IF "selectedPages" \in DOMAIN options /\ options.selectedPages # {}
                 THEN SelectSeq(ws.pages, LAMBDA page : page.id \in options.selectedPages)
                 ELSE ws.pages
    IN [workspace |-> [title |-> ws.title, pages |-> pages],
        metadata |-> [exportedAt |-> toISOString(t),
                      version |-> "1.0.0",
                      format |-> options.format]]

\* A file is unreadable, empty, or holds text; a text is the JSON value it
\* denotes, or no JSON at all
TextFile(value) == [kind |-> "text", json |-> TRUE, value |-> value]
NotJSONFile == [kind |-> "text", json |-> FALSE]
UnreadableFile == [kind |-> "unreadable"]
EmptyFile == [kind |-> "empty"]

\* exportAsJSON: JSON.stringify(exportData, null, 2) into the downloaded file
exportAsJSON(data) ==
    TextFile(JObject([workspace |->
                          JObject([title |-> JString(data.workspace.title),
                                   pages |-> pagesToJSON(data.workspace.pages)]),
                      metadata |->
                          JObject([exportedAt |-> JIdString(data.metadata.exportedAt),
                                   version |-> JString(data.metadata.version),
                                   format |-> JString(data.metadata.format)])]))

\* createBackup: JSON.stringify of {version, createdAt, workspace, metadata}
createBackup(ws, t) ==
    TextFile(JObject([version |-> JString("1.0.0"),
                      createdAt |-> JIdString(toISOString(t)),
                      workspace |->
                          JObject([title |-> JString(ws.title),
                                   pages |-> pagesToJSON(ws.pages),
                                   activePageId |-> IF ws.activePageId = Null THEN JNull
                                                    ELSE JIdString(ws.activePageId),
                                   updatedAt |-> JIdString(toISOString(ws.updatedAt))]),
                      metadata |->
                          JObject([totalCards |-> JNumber(Cardinality(
                                       UNION {UNION {{<<i, j, k>> :
                                           k \in DOMAIN ws.pages[i].board.columns[j].cards} :
                                           j \in DOMAIN ws.pages[i].board.columns} :
                                           i \in DOMAIN ws.pages})),
                                   totalPages |-> JNumber(Len(ws.pages))])]))

\* readFile: FileReader.readAsText; an empty result counts as a failure
readFile(file) ==
    CASE file.kind = "unreadable" -> Thrown("File reading error")
      [] file.kind = "empty" -> Thrown("Failed to read file")
      [] OTHER -> Returned(file)

\* JSON.parse
JSONparse(content) ==
    IF content.json THEN Returned(content.value)
    ELSE Thrown("Unexpected token")

\* pages.every(page => page.id && page.title && page.board &&
\*                     Array.isArray(page.board.columns)), from the i-th page on
RECURSIVE everyPage(_, _)
everyPage(items, i) ==
    IF i > Len(items) THEN Returned(TRUE)
    ELSE IF readThrows(items[i])
    THEN Thrown("Cannot read properties of null (reading 'id')")
    ELSE IF /\ truthy(prop(items[i], "id"))
            /\ truthy(prop(items[i], "title"))
            /\ truthy(prop(items[i], "board"))
            /\ isArray(prop(prop(items[i], "board"), "columns"))
    THEN everyPage(items, i + 1)
    ELSE Returned(FALSE)

validateImportData(data) ==
    IF ~truthy(data) \/ ~typeofObject(data) THEN Returned(FALSE)
    ELSE IF ~truthy(prop(data, "workspace")) THEN Returned(FALSE)
    ELSE IF ~isArray(prop(prop(data, "workspace"), "pages")) THEN Returned(FALSE)
    ELSE everyPage(prop(prop(data, "workspace"), "pages").items, 1)

\* f[1] + ... + f[n]
RECURSIVE SumTo(_, _)
SumTo(f, n) == IF n = 0 THEN 0 ELSE f[n] + SumTo(f, n - 1)

\* The columns of a validated page, and whether column.cards.forEach throws
columnItems(page) == prop(prop(page, "board"), "columns").items

forEachCardThrows(column) ==
    readThrows(column) \/ ~isArray(prop(column, "cards"))

\* processImport: counts pages, columns and cards; reads neither its options
\* nor the workspace store
processImport(data, options) ==
    LET pages == prop(prop(data, "workspace"), "pages").items
        throws == \E i \in DOMAIN pages : \E j \in DOMAIN columnItems(pages[i]) :
                      forEachCardThrows(columnItems(pages[i])[j])
        columns == SumTo([i \in DOMAIN pages |-> Len(columnItems(pages[i]))], Len(pages))
        cards == SumTo([i \in DOMAIN pages |->
                           SumTo([j \in DOMAIN columnItems(pages[i]) |->
                                     Len(prop(columnItems(pages[i])[j], "cards").items)],
                                 Len(columnItems(pages[i])))],
                       Len(pages))
    IN IF throws
       THEN Thrown("Cannot read properties of undefined (reading 'forEach')")
       ELSE Returned([success |-> TRUE,
                      message |-> <<"Successfully imported", Len(pages), columns, cards>>,
                      imported |-> [pages |-> Len(pages), columns |-> columns,
                                    cards |-> cards],
                      conflicts |-> <<>>])

\* The result the catch block of importWorkspace builds
importFailed(message) ==
    [success |-> FALSE,
     message |-> <<"Import failed: ", message>>,
     imported |-> [pages |-> 0, columns |-> 0, cards |-> 0],
     conflicts |-> <<>>]

\* What the promise an async function returns ends with
Resolved(result) == [status |-> "resolved", result |-> result]
Rejected(message) == [status |-> "rejected", error |-> message]

\* importWorkspace with processImport called after the try block
importWorkspace_ProcessOutsideTry(file, options) ==
    LET content == readFile(file)
        data == JSONparse(content.value)
        valid == validateImportData(data.value)
        processed == processImport(data.value, options)
    IN IF ~content.ok THEN Resolved(importFailed(content.error))
       ELSE IF ~data.ok THEN Resolved(importFailed(data.error))
       ELSE IF ~valid.ok THEN Resolved(importFailed(valid.error))
       ELSE IF ~valid.value THEN Resolved(importFailed("Invalid import data format"))
       ELSE IF ~processed.ok THEN Rejected(processed.error)
       ELSE Resolved(processed.value)

\* importWorkspace that skips the counting under the strategy 'skip'
importWorkspace_SkipCountsNothing(file, options) ==
    LET content == readFile(file)
        data == JSONparse(content.value)
        valid == validateImportData(data.value)
        processed == processImport(data.value, options)
    IN IF ~content.ok THEN Resolved(importFailed(content.error))
       ELSE IF ~data.ok THEN Resolved(importFailed(data.error))
       ELSE IF ~valid.ok THEN Resolved(importFailed(valid.error))
       ELSE IF ~valid.value THEN Resolved(importFailed("Invalid import data format"))
       ELSE IF ~processed.ok THEN Resolved(importFailed(processed.error))
       ELSE IF options.mergeStrategy = "skip"
       THEN Resolved([processed.value EXCEPT
                         !.imported = [pages |-> 0, columns |-> 0, cards |-> 0]])
       ELSE Resolved(processed.value)

\* importWorkspace: read, parse, validate and count inside one try block; the
\* catch block turns whatever was thrown into a failure result
importWorkspace(file, options) ==
    LET content == readFile(file)
        data == JSONparse(content.value)
        valid == validateImportData(data.value)
        processed == processImport(data.value, options)
    IN IF ~content.ok THEN Resolved(importFailed(content.error))
       ELSE IF ~data.ok THEN Resolved(importFailed(data.error))
       ELSE IF ~valid.ok THEN Resolved(importFailed(valid.error))
       ELSE IF ~valid.value THEN Resolved(importFailed("Invalid import data format"))
       ELSE IF ~processed.ok THEN Resolved(importFailed(processed.error))
       ELSE Resolved(processed.value)

restoreFromBackup(backupFile) ==
    importWorkspace(backupFile, [mergeStrategy |-> "replace", preserveIds |-> TRUE])

ImportOptions == [mergeStrategy : {"replace", "merge", "skip"}, preserveIds : BOOLEAN]

\* The files a user may pick.  Pieces of a well-formed export:
SampleCard == JObject([id |-> JIdString(<<"card", 3>>), title |-> JString("Task")])

SampleColumn ==
    JObject([id |-> JIdString(<<"col", 2>>), title |-> JString("Doing"),
             cards |-> JArray(<<SampleCard, SampleCard>>)])

EmptyColumn ==
    JObject([id |-> JIdString(<<"col", 2>>), title |-> JString("Doing"),
             cards |-> JArray(<<>>)])

BoardOf(columns) == JObject([columns |-> JArray(columns)])

SamplePage(columns) ==
    JObject([id |-> JIdString(<<"page", 1>>), title |-> JString("Roadmap"),
             board |-> BoardOf(columns)])

FileOfPages(pages) ==
    TextFile(JObject([workspace |-> JObject([title |-> JString("Team"),
                                            pages |-> pages])]))

\* JSON that fails the shape check of validateImportData
ShapeFailingFiles ==
    {TextFile(JNull), TextFile(JNumber(1)), TextFile(JString("workspace")),
     TextFile(JArray(<<>>)),
     TextFile(JObject([metadata |-> JNull])),
     TextFile(JObject([workspace |-> JNull])),
     TextFile(JObject([workspace |-> JObject([title |-> JString("Team")])])),
     FileOfPages(JObject([length |-> JNumber(1)])),
     FileOfPages(JArray(<<JNull>>)),
     FileOfPages(JArray(<<SamplePage(<<SampleColumn>>), JNull>>)),
     FileOfPages(JArray(<<JObject([title |-> JString("Roadmap"),
                                   board |-> BoardOf(<<SampleColumn>>)])>>)),
     FileOfPages(JArray(<<JObject([id |-> JIdString(<<"page", 1>>),
                                   title |-> JString(""),
                                   board |-> BoardOf(<<SampleColumn>>)])>>)),
     FileOfPages(JArray(<<JObject([id |-> JIdString(<<"page", 1>>),
                                   title |-> JString("Roadmap")])>>)),
     FileOfPages(JArray(<<JObject([id |-> JIdString(<<"page", 1>>),
                                   title |-> JString("Roadmap"),
                                   board |-> JObject([title |-> JString("Board")])])>>))}

\* JSON that passes the shape check, with a column that has no cards array
CardlessColumnFiles ==
    {FileOfPages(JArray(<<SamplePage(<<JObject([id |-> JIdString(<<"col", 2>>),
                                                title |-> JString("Doing")])>>)>>)),
     FileOfPages(JArray(<<SamplePage(<<SampleColumn, JNull>>)>>)),
     FileOfPages(JArray(<<SamplePage(<<SampleColumn>>),
                          SamplePage(<<JObject([id |-> JIdString(<<"col", 2>>),
                                                title |-> JString("Doing"),
                                                cards |-> JString("none")])>>)>>))}

\* Files the import counts: hand-written ones, and the export and the backup
\* of the workspace at hand
WellFormedFiles ==
    {FileOfPages(JArray(<<>>)),
     FileOfPages(JArray(<<SamplePage(<<>>)>>)),
     FileOfPages(JArray(<<SamplePage(<<SampleColumn>>)>>)),
     FileOfPages(JArray(<<SamplePage(<<SampleColumn, EmptyColumn>>),
                          SamplePage(<<SampleColumn>>)>>)),
     exportAsJSON(prepareExportData(workspace,
         [format |-> "json", includeMetadata |-> TRUE, includeAnalytics |-> FALSE],
         now)),
     createBackup(workspace, now)}

FailingFiles ==
    {UnreadableFile, EmptyFile, NotJSONFile} \cup ShapeFailingFiles
        \cup CardlessColumnFiles

ImportFiles == FailingFiles \cup WellFormedFiles

\* The import steps: a call of the service, run until its promise has ended
ImportWorkspace ==
    /\ \E file \in ImportFiles, options \in ImportOptions :
          importCall' = [file |-> file, options |-> options,
                         outcome |-> importWorkspace(file, options)]
    /\ UNCHANGED <<storeVars, themeVars, collabVars>>

RestoreFromBackup ==
    /\ \E backupFile \in ImportFiles :
          importCall' = [file |-> backupFile,
                         outcome |-> restoreFromBackup(backupFile)]
    /\ UNCHANGED <<storeVars, themeVars, collabVars>>

ImportNext ==
    \/ ImportWorkspace
    \/ RestoreFromBackup

ImportSpec == Init /\ [][ImportNext]_vars

\* The theme steps.  setTheme stores the preference, persist writes it, and
\* the resolved theme is applied to the document
SetTheme ==
    \E t \in Themes :
        /\ theme' = t
        /\ storage' = (themePersistName :> themeSetItem(t)) @@ storage
        /\ ApplyToDocument(getResolvedTheme(t, prefersDark))
        /\ UNCHANGED <<prefersDark, changeListeners, resolvedCall, importCall,
                       collabVars, workspace, selectedCardId, now, idCounter, steps>>

\* A component asks for the resolved theme
GetResolvedTheme ==
    /\ resolvedCall' = [theme |-> theme, matches |-> prefersDark,
                        result |-> getResolvedTheme(theme, prefersDark)]
    /\ UNCHANGED <<theme, prefersDark, dataTheme, darkClass, changeListeners,
                   importCall, collabVars, storeVars>>

\* initializeTheme applies the resolved theme and adds one more listener
InitializeTheme ==
    /\ changeListeners < MaxListeners
    /\ ApplyToDocument(getResolvedTheme(theme, prefersDark))
    /\ changeListeners' = changeListeners + 1
    /\ UNCHANGED <<theme, prefersDark, resolvedCall, importCall, collabVars, storeVars>>

\* handleChange applying the OS preference whatever the stored preference is
handleChange_Always(t, matches) == TRUE

\* handleChange: whether the listener applies the media query's new value
handleChange(t, matches) == t = "system"

\* The OS color scheme changes: the media query's matches flips and every
\* listener runs handleChange
ColorSchemeChange ==
    /\ prefersDark' = ~prefersDark
    /\ IF changeListeners > 0 /\ handleChange(theme, prefersDark')
       THEN ApplyToDocument(IF prefersDark' THEN "dark" ELSE "light")
       ELSE UNCHANGED <<dataTheme, darkClass>>
    /\ UNCHANGED <<theme, changeListeners, resolvedCall, importCall, collabVars,
                   storeVars>>

ThemeInit ==
    \E stored \in Themes \cup {"none"}, matches \in BOOLEAN :
        /\ StoreCreated(IF stored = "none" THEN "system" ELSE stored)
        /\ importCall = Null
        /\ ThemeCreated(stored, matches)
        /\ CollaborationCreated

ThemeNext ==
    \/ SetTheme
    \/ GetResolvedTheme
    \/ InitializeTheme
    \/ ColorSchemeChange

ThemeSpec == ThemeInit /\ [][ThemeNext]_vars

\* The collaboration steps.  The event types a component listens to, '*'
\* standing for every type
EventTypes == {"*", "user_joined", "cursor_moved"}

\* The mock users 'user-1' and 'user-2' of simulateOtherUsers
MockUsers == {<<"mock", 1>>, <<"mock", 2>>}

\* The room ids a caller may pass to joinRoom
RoomIds == {<<"room", 1>>}

\* handleEvent: the listeners of the event's type and the listeners of '*'
listenersOf(type) == eventListeners \cap {type, "*"}

\* joinRoom up to its await: the room and the user are set, and
\* connectWebSocket has scheduled the timer of simulateWebSocketConnection
JoinRoom ==
    /\ userCounter < MaxJoins
    /\ \E room \in RoomIds : roomId' = room
    /\ currentUser' = <<"generated", userCounter + 1>>
    /\ userCounter' = userCounter + 1
    /\ timers' = timers + 1
    /\ pendingJoins' = pendingJoins + 1
    /\ notified' = {}
    /\ UNCHANGED <<users, eventListeners, importCall, themeVars, storeVars>>

\* joinRoom after its await: sendEvent echoes user_joined to handleEvent;
\* with no current user left, reading this.currentUser.id throws
JoinRoomResumes ==
    /\ pendingJoins > 0
    /\ pendingJoins' = pendingJoins - 1
    /\ IF currentUser = Null
       THEN /\ notified' = {}
            /\ UNCHANGED users
       ELSE /\ users' = users \cup {currentUser}
            /\ notified' = listenersOf("user_joined")
    /\ UNCHANGED <<roomId, currentUser, eventListeners, userCounter, timers,
                   importCall, themeVars, storeVars>>

\* The timer's callback, simulateOtherUsers: it runs once no joinRoom is
\* waiting to resume
SimulateOtherUsers ==
    /\ timers > 0
    /\ pendingJoins = 0
    /\ timers' = timers - 1
    /\ users' = users \cup MockUsers
    /\ notified' = listenersOf("user_joined")
    /\ UNCHANGED <<roomId, currentUser, eventListeners, userCounter, pendingJoins,
                   importCall, themeVars, storeVars>>

\* leaveRoom: this.ws is never set, so no user_left event is sent; the timer
\* is left as it is
LeaveRoom ==
    /\ roomId' = Null
    /\ currentUser' = Null
    /\ users' = {}
    /\ notified' = {}
    /\ UNCHANGED <<eventListeners, userCounter, timers, pendingJoins,
                   importCall, themeVars, storeVars>>

\* updateCursor: nothing without a current user, else cursor_moved is echoed
UpdateCursor ==
    /\ notified' = IF currentUser = Null THEN {} ELSE listenersOf("cursor_moved")
    /\ UNCHANGED <<roomId, currentUser, users, eventListeners, userCounter, timers,
                   pendingJoins, importCall, themeVars, storeVars>>

AddEventListener ==
    \E eventType \in EventTypes :
        /\ eventListeners' = eventListeners \cup {eventType}
        /\ notified' = {}
        /\ UNCHANGED <<roomId, currentUser, users, userCounter, timers,
                       pendingJoins, importCall, themeVars, storeVars>>

RemoveEventListener ==
    \E eventType \in EventTypes :
        /\ eventListeners' = eventListeners \ {eventType}
        /\ notified' = {}
        /\ UNCHANGED <<roomId, currentUser, users, userCounter, timers,
                       pendingJoins, importCall, themeVars, storeVars>>

CollabNext ==
    \/ JoinRoom
    \/ JoinRoomResumes
    \/ SimulateOtherUsers
    \/ LeaveRoom
    \/ UpdateCursor
    \/ AddEventListener
    \/ RemoveEventListener

CollabSpec == Init /\ [][CollabNext]_vars

\* ------------------------------------------------- what the claims speak of
\* Every place of the tree that holds a card: page, column and card position
CardSlots(ws) ==
    UNION {UNION {{<<i, j, k>> : k \in DOMAIN ws.pages[i].board.columns[j].cards} :
                     j \in DOMAIN ws.pages[i].board.columns} :
              i \in DOMAIN ws.pages}

CardIn(ws, slot) == ws.pages[slot[1]].board.columns[slot[2]].cards[slot[3]]

NumCards(ws) == Cardinality(CardSlots(ws))

\* The ids of the columns, page by page: the shape of the tree
ColumnIdsByPage(ws) ==
    [i \in DOMAIN ws.pages |->
        [j \in DOMAIN ws.pages[i].board.columns |-> ws.pages[i].board.columns[j].id]]

\* The cards of every column other than the card called cardId, in order
OtherCards(ws, cardId) ==
    [i \in DOMAIN ws.pages |->
        [j \in DOMAIN ws.pages[i].board.columns |->
            SelectSeq(ws.pages[i].board.columns[j].cards,
                      LAMBDA k : k.id # cardId)]]

\* A sequence without its n-th element
Without(seq, n) == SubSeq(seq, 1, n - 1) \o SubSeq(seq, n + 1, Len(seq))

\* The tree without its timestamps: what a call that only refreshes them keeps
Untimed(ws) ==
    [title |-> ws.title,
     activePageId |-> ws.activePageId,
     pages |-> [i \in DOMAIN ws.pages |->
        [ws.pages[i] EXCEPT
            !.updatedAt = 0,
            !.board.columns = [j \in DOMAIN @ |->
                [@[j] EXCEPT
                    !.updatedAt = 0,
                    !.cards = [k \in DOMAIN @ |-> [@[k] EXCEPT !.updatedAt = 0]]]]]]]

\* No two cards of the workspace share an id
UniqueCardIds(ws) ==
    \A a, b \in CardSlots(ws) : CardIn(ws, a).id = CardIn(ws, b).id => a = b

\* ------------------------------------------------------------------ claims

\* C1: in every reachable state every card held in a column's cards sequence
\* has columnId equal to the id of that column.
C1_ReferentialIntegrity ==
    \A p \in PagesOf(workspace) :
        \A c \in Range(p.board.columns) :
            \A k \in Range(c.cards) : k.columnId = c.id

\* C2: in every reachable state activePageId is null or the id of a page
\* present in pages.
C2_ActivePageValid ==
    \/ workspace.activePageId = Null
    \/ workspace.activePageId \in PageIds(workspace)

\* C3: moveCard is atomic: for any source and target it either relocates the
\* card into the target column or leaves the tree as it was; when the source
\* card is found but the target page or column is not, the card is still held
\* by its source column afterwards, and moveCard never changes the number of
\* cards of the workspace.
C3_MoveCardAtomic ==
    \A source \in Sources, target \in Targets :
        LET after == moveCard(State, source, target, now)
            relocated ==
                /\ sourceFound(State, source)
                /\ columnFound(after, target.pageId, target.columnId)
                /\ \E k \in Range(columnAt(after, target.pageId,
                                            target.columnId).cards) :
                       k.id = source.cardId /\ k.columnId = target.columnId
        IN /\ relocated \/ Untimed(after.workspace) = Untimed(workspace)
           /\ (/\ sourceFound(State, source)
               /\ ~columnFound(State, target.pageId, target.columnId))
              => sourceFound(after, source)
           /\ NumCards(after.workspace) = NumCards(workspace)

\* C4: when the source card is found and the target column exists, after
\* moveCard the card appears exactly once in the whole workspace, in the target
\* column at position index (against the target sequence after the removal,
\* for 0 <= index <= its length; at the end when index is omitted), with
\* columnId equal to the target column id, and every other card keeps its
\* column and relative order.  From the default workspace, addColumn and then
\* moving the welcome card leaves "To Do" with 0 cards and the new column with 1.
MoveCardLanded(state, source, target) ==
    LET after == moveCard(state, source, target, now).workspace
        sameColumn == /\ source.pageId = target.pageId
                      /\ source.columnId = target.columnId
        rest == Len(columnAt(state, target.pageId, target.columnId).cards)
                    - (IF sameColumn THEN 1 ELSE 0)
        position == IF "index" \in DOMAIN target THEN target.index ELSE rest
        pi == findIndex(after.pages, target.pageId)
        ci == findIndex(At(after.pages, pi).board.columns, target.columnId)
    IN ("index" \in DOMAIN target => target.index \in 0 .. rest)
       => /\ {slot \in CardSlots(after) : CardIn(after, slot).id = source.cardId}
                = {<<pi + 1, ci + 1, position + 1>>}
          /\ CardIn(after, <<pi + 1, ci + 1, position + 1>>).columnId
                = target.columnId
          /\ ColumnIdsByPage(after) = ColumnIdsByPage(state.workspace)
          /\ OtherCards(after, source.cardId)
                = OtherCards(state.workspace, source.cardId)

WelcomeCardMoved ==
    LET pageId == <<"page", 1>>
        toDoId == <<"col", 2>>
        doingId == <<"col", 4>>
        s0 == [workspace |-> createDefaultWorkspace(1, 0), selectedCardId |-> Null]
        s1 == addColumn(s0, pageId, "Doing", 4, 0)
        s2 == moveCard(s1,
                       [pageId |-> pageId, columnId |-> toDoId,
                        cardId |-> <<"card", 3>>],
                       [pageId |-> pageId, columnId |-> doingId], 0)
    IN /\ Len(columnAt(s2, pageId, toDoId).cards) = 0
       /\ Len(columnAt(s2, pageId, doingId).cards) = 1
       /\ columnAt(s2, pageId, doingId).cards[1].columnId = doingId

C4_MoveCardSucceeds ==
    /\ \A source \in Sources, target \in Targets :
          (/\ sourceFound(State, source)
           /\ columnFound(State, target.pageId, target.columnId))
          => MoveCardLanded(State, source, target)
    /\ WelcomeCardMoved

\* What C4 says holds in every state in which no two cards share an id
C4_WhileCardIdsUnique == UniqueCardIds(workspace) => C4_MoveCardSucceeds

\* C5: when the source page, source column or source card is not found,
\* moveCard leaves the whole store state unchanged, every updatedAt included.
C5_MoveCardMissIsNoOp ==
    \A source \in Sources, target \in Targets :
        ~sourceFound(State, source)
            => moveCard(State, source, target, now).workspace = workspace

\* C6: removePage(p) for a page p present in pages removes exactly that page
\* and keeps the order of the others; if p was the active page, activePageId
\* becomes the id of the first remaining page, or null when none remains;
\* otherwise activePageId is unchanged.
C6_RemovePagePresent ==
    \A n \in DOMAIN workspace.pages :
        LET pageId == workspace.pages[n].id
            after == removePage(State, pageId, now).workspace
        IN /\ after.pages = Without(workspace.pages, n)
           /\ after.activePageId =
                 IF workspace.activePageId # pageId THEN workspace.activePageId
                 ELSE IF Len(workspace.pages) = 1 THEN Null
                 ELSE Without(workspace.pages, n)[1].id

\* C6 happens: the active page, the first of several, is removed and the page
\* that was second becomes the active one.
C6_Witness ==
    /\ Len(workspace.pages) > 1
    /\ workspace.activePageId = workspace.pages[1].id
    /\ removePage(State, workspace.pages[1].id, now).workspace.activePageId
           = workspace.pages[2].id

\* C7: for every reachable state and every pageId, the state right after
\* removePage(pageId) has activePageId null or the id of a page in pages.
C7_ActivePageValidAfterRemove ==
    \A pageId \in PageArgs :
        LET after == removePage(State, pageId, now).workspace
        IN \/ after.activePageId = Null
           \/ after.activePageId \in PageIds(after)

\* C8: removePage with a pageId that matches no page leaves pages,
\* activePageId and every updatedAt, the workspace's included, as they were.
C8_RemovePageMissIsNoOp ==
    \A pageId \in PageArgs :
        ~pageFound(State, pageId)
            => removePage(State, pageId, now).workspace = workspace

\* C9: after removeColumn(pageId, columnId) on a column present in that page,
\* findColumn gives null for the column, findCard gives null for every card it
\* held, and the other columns of the page keep their cards and their order.
C9_RemoveColumnRemovesCards ==
    \A pageId \in PageArgs, columnId \in ColumnArgs :
        columnFound(State, pageId, columnId) =>
            LET after == removeColumn(State, pageId, columnId, now)
                pi == findIndex(workspace.pages, pageId)
                columns == At(workspace.pages, pi).board.columns
                ci == findIndex(columns, columnId)
            IN /\ findColumn(after, columnId) = Null
               /\ \A k \in Range(At(columns, ci).cards) :
                      findCard(after, k.id) = Null
               /\ At(after.workspace.pages, pi).board.columns
                      = Without(columns, ci + 1)

\* What C9 says holds in every state in which no two cards share an id
C9_WhileCardIdsUnique == UniqueCardIds(workspace) => C9_RemoveColumnRemovesCards

\* C10: removeColumn with a pageId that names no page, or a columnId that
\* names no column of the page, leaves the whole tree unchanged, the page's
\* and the workspace's updatedAt included.
C10_RemoveColumnMissIsNoOp ==
    \A pageId \in PageArgs, columnId \in ColumnArgs :
        ~columnFound(State, pageId, columnId)
            => removeColumn(State, pageId, columnId, now).workspace = workspace

\* The named column holds a card with id cardId
cardFound(state, pageId, columnId, cardId) ==
    sourceFound(state, [pageId |-> pageId, columnId |-> columnId, cardId |-> cardId])

\* C11: removeCard clears selectedCardId exactly when it removes the card that
\* was selected; when the named column holds no card with id cardId, or the
\* page or column is missing, the tree, every updatedAt and selectedCardId are
\* unchanged, also when cardId is the selected card held by another column.
C11_RemoveCardSelection ==
    \A pageId \in PageArgs, columnId \in ColumnArgs, cardId \in CardArgs :
        LET after == removeCard(State, pageId, columnId, cardId, now)
            removed == cardFound(State, pageId, columnId, cardId)
        IN /\ after.selectedCardId =
                 IF removed /\ selectedCardId = cardId THEN Null
                 ELSE selectedCardId
           /\ ~removed => after = State

\* C12: with an unknown page, column or card, addColumn, renamePage,
\* updatePageIcon, renameColumn, moveColumn, addCard and updateCard each leave
\* the whole store state (tree, timestamps, selection) unchanged.
C12_NotFoundIsNoOp ==
    /\ \A pageId \in PageArgs :
          ~pageFound(State, pageId) =>
              /\ \A title \in ColumnTitles :
                     addColumn(State, pageId, title, idCounter, now) = State
              /\ \A title \in PageTitles :
                     renamePage(State, pageId, title, now) = State
              /\ \A icon \in Icons :
                     updatePageIcon(State, pageId, icon, now) = State
    /\ \A pageId \in PageArgs, columnId \in ColumnArgs :
          ~columnFound(State, pageId, columnId) =>
              /\ \A title \in ColumnTitles :
                     renameColumn(State, pageId, columnId, title, now) = State
              /\ \A targetIndex \in IndexArgs :
                     moveColumn(State, pageId, columnId, targetIndex, now) = State
              /\ \A text \in CardTexts :
                     addCard(State, pageId, columnId, text, idCounter, now) = State
    /\ \A pageId \in PageArgs, columnId \in ColumnArgs, cardId \in CardArgs :
          ~cardFound(State, pageId, columnId, cardId) =>
              \A updates \in Updates :
                  updateCard(State, pageId, columnId, cardId, updates, now) = State

\* C12 happens: the clock has moved on since the workspace was last touched, a
\* card is selected, and updateCard names a column that exists and a card that
\* does not; the call gives back the state it was given.
C12_Witness ==
    /\ now > workspace.updatedAt
    /\ selectedCardId # Null
    /\ \E pageId \in PageArgs, columnId \in ColumnArgs :
          /\ columnFound(State, pageId, columnId)
          /\ ~cardFound(State, pageId, columnId, GhostId)
          /\ updateCard(State, pageId, columnId, GhostId,
                        [title |-> "Task"], now) = State

\* The card updateCard reaches: the first of the column with id cardId
cardAt(state, pageId, columnId, cardId) ==
    LET cards == columnAt(state, pageId, columnId).cards
    IN At(cards, findIndex(cards, cardId))

\* C13: the clock never runs backwards, and after updateCard on a card that is
\* found, whatever the fields passed (an updatedAt included), the updatedAt of
\* the card, of its column, of its page and of the workspace are each the clock
\* value read during the call, which is no earlier than their values before.
C13_CascadeTimestamps ==
    \A pageId \in PageArgs, columnId \in ColumnArgs, cardId \in CardArgs :
        cardFound(State, pageId, columnId, cardId) =>
            \A updates \in Updates :
                LET after == updateCard(State, pageId, columnId, cardId, updates, now)
                    pi == findIndex(workspace.pages, pageId)
                    ci == findIndex(At(workspace.pages, pi).board.columns, columnId)
                    ki == findIndex(columnAt(State, pageId, columnId).cards, cardId)
                    page == At(after.workspace.pages, pi)
                    column == At(page.board.columns, ci)
                    card == At(column.cards, ki)
                IN /\ card.updatedAt = now
                   /\ column.updatedAt = now
                   /\ page.updatedAt = now
                   /\ after.workspace.updatedAt = now
                   /\ cardAt(State, pageId, columnId, cardId).updatedAt <= now
                   /\ columnAt(State, pageId, columnId).updatedAt <= now
                   /\ At(workspace.pages, pi).updatedAt <= now
                   /\ workspace.updatedAt <= now

\* C13 happens: the clock has moved on since the card was last touched and the
\* caller passes an updatedAt of its own; the card ends with the clock's value.
C13_Witness ==
    \E pageId \in PageArgs, columnId \in ColumnArgs, cardId \in CardArgs :
        /\ cardFound(State, pageId, columnId, cardId)
        /\ cardAt(State, pageId, columnId, cardId).updatedAt < now
        /\ LET after == updateCard(State, pageId, columnId, cardId,
                                   [updatedAt |-> MaxClock + 1], now)
           IN /\ cardAt(after, pageId, columnId, cardId).updatedAt = now
              /\ after.workspace.updatedAt = now

\* The columns of the page with id pageId
columnsOfPage(state, pageId) ==
    At(state.workspace.pages, findIndex(state.workspace.pages, pageId)).board.columns

\* targetIndex is any integer: below minus the length, negative, in range,
\* at the length and beyond it
MoveIndexes == (0 - MaxIndex - 1) .. (MaxIndex + 1)

\* C14: moveColumn on a column present in the page gives a permutation of the
\* page's columns for any integer targetIndex: the column is there once, and
\* the others are all there in their relative order; for targetIndex in
\* 0 .. n-1 (n columns) the moved column ends at index targetIndex.
C14_MoveColumnPermutes ==
    \A pageId \in PageArgs, columnId \in ColumnArgs :
        columnFound(State, pageId, columnId) =>
            \A targetIndex \in MoveIndexes :
                LET columns == columnsOfPage(State, pageId)
                    currentIndex == findIndex(columns, columnId)
                    after == columnsOfPage(
                        moveColumn(State, pageId, columnId, targetIndex, now), pageId)
                    position == findIndex(after, columnId)
                IN /\ Len(after) = Len(columns)
                   /\ position # -1
                   /\ At(after, position) = At(columns, currentIndex)
                   /\ Without(after, position + 1) = Without(columns, currentIndex + 1)
                   /\ targetIndex \in 0 .. Len(columns) - 1 => position = targetIndex

\* C14 happens: a page has three columns or more and its first column is
\* moved to index 2, behind the two that followed it.
C14_Witness ==
    \E pageId \in PageArgs :
        /\ pageFound(State, pageId)
        /\ Len(columnsOfPage(State, pageId)) >= 3
        /\ LET columns == columnsOfPage(State, pageId)
               after == columnsOfPage(
                   moveColumn(State, pageId, columns[1].id, 2, now), pageId)
           IN SubSeq(after, 1, 3) = <<columns[2], columns[3], columns[1]>>

\* C15: for every page, column of that page and indices i and j (negative,
\* within the sequence, at its end and beyond it),
\* moveColumn(i) followed at once by moveColumn(j) gives the same column
\* sequence as moveColumn(j) alone applied to the original sequence.
C15_MoveColumnTwice ==
    \A pageId \in PageArgs, columnId \in ColumnArgs :
        columnFound(State, pageId, columnId) =>
            LET direct == [j \in IndexArgs |->
                    columnsOfPage(moveColumn(State, pageId, columnId, j, now), pageId)]
            IN \A i \in IndexArgs :
                   LET first == moveColumn(State, pageId, columnId, i, now)
                   IN \A j \in IndexArgs :
                          columnsOfPage(moveColumn(first, pageId, columnId, j, now),
                                        pageId) = direct[j]

\* C15 happens: the first move changes the order of the columns and the
\* second brings the column to where the direct move puts it.
C15_Witness ==
    \E pageId \in PageArgs :
        /\ pageFound(State, pageId)
        /\ Len(columnsOfPage(State, pageId)) >= 2
        /\ LET columns == columnsOfPage(State, pageId)
               first == moveColumn(State, pageId, columns[1].id, 2, now)
               second == moveColumn(first, pageId, columns[1].id, 1, now)
           IN /\ columnsOfPage(first, pageId) # columns
              /\ columnsOfPage(second, pageId)[2] = columns[1]
              /\ columnsOfPage(second, pageId)
                    = columnsOfPage(
                          moveColumn(State, pageId, columns[1].id, 1, now), pageId)

\* C16: moveCard whose target is the card's own page and column, with index
\* the card's current position, leaves the tree structurally unchanged: the
\* same cards in the same columns in the same order with the same columnId
\* values; only updatedAt timestamps may differ.
C16_MoveCardToOwnPlace ==
    \A source \in Sources :
        sourceFound(State, source) =>
            LET cards == columnAt(State, source.pageId, source.columnId).cards
                target == [pageId |-> source.pageId,
                           columnId |-> source.columnId,
                           index |-> findIndex(cards, source.cardId)]
            IN Untimed(moveCard(State, source, target, now).workspace)
                   = Untimed(workspace)

\* What C16 says holds in every state in which each card's columnId is the id
\* of the column that holds it
C16_WhileColumnIdsRight == C1_ReferentialIntegrity => C16_MoveCardToOwnPlace

\* Every place of the tree that holds a column: page and column position
ColumnSlots(ws) ==
    UNION {{<<i, j>> : j \in DOMAIN ws.pages[i].board.columns} :
              i \in DOMAIN ws.pages}

\* C17: with an identifier generator that never repeats, in every reachable
\* state no two pages share an id, no two columns share an id and no two
\* cards share an id anywhere in the workspace.
C17_IdsUnique ==
    /\ \A i, j \in DOMAIN workspace.pages :
          workspace.pages[i].id = workspace.pages[j].id => i = j
    /\ \A a, b \in ColumnSlots(workspace) :
          workspace.pages[a[1]].board.columns[a[2]].id
              = workspace.pages[b[1]].board.columns[b[2]].id => a = b
    /\ UniqueCardIds(workspace)

\* C18: addPage(title, icon) appends exactly one new page, with a board of no
\* columns, at the end of pages, leaves the existing pages and their order as
\* they were, and makes the new page's id the activePageId.
C18_AddPageAppends ==
    \A title \in PageTitles, icon \in Icons :
        LET after == addPage(State, title, icon, idCounter, now).workspace
            n == Len(workspace.pages)
        IN /\ Len(after.pages) = n + 1
           /\ SubSeq(after.pages, 1, n) = workspace.pages
           /\ after.pages[n + 1].board.columns = <<>>
           /\ after.pages[n + 1].title = title
           /\ after.pages[n + 1].icon = icon
           /\ after.pages[n + 1].id \notin PageIds(workspace)
           /\ after.activePageId = after.pages[n + 1].id

\* C18 happens: the workspace has two pages or more and an active page among
\* them; after addPage the pages it had come first, in their order, and the
\* active page is the added one.
C18_Witness ==
    /\ Len(workspace.pages) >= 2
    /\ workspace.activePageId \in PageIds(workspace)
    /\ LET after == addPage(State, "Roadmap", "icon", idCounter, now).workspace
       IN /\ after.pages[1] = workspace.pages[1]
          /\ after.pages[2] = workspace.pages[2]
          /\ after.activePageId \notin PageIds(workspace)
          /\ after.activePageId = after.pages[Len(after.pages)].id

\* The cards of every column, page by page and column by column
CardsByColumn(ws) ==
    [i \in DOMAIN ws.pages |->
        [j \in DOMAIN ws.pages[i].board.columns |->
            ws.pages[i].board.columns[j].cards]]

\* C19: addCard on a page and column that exist appends exactly one new card
\* at the end of the column's cards, with status 'todo', no tags, empty
\* metadata, the description given or the empty string when none is given,
\* and columnId the column's id; every card there was stays where it was.
C19_AddCardAppends ==
    \A pageId \in PageArgs, columnId \in ColumnArgs :
        columnFound(State, pageId, columnId) =>
            \A text \in CardTexts :
                LET after == addCard(State, pageId, columnId, text, idCounter, now)
                    pi == findIndex(workspace.pages, pageId)
                    ci == findIndex(At(workspace.pages, pi).board.columns, columnId)
                    cards == columnAt(after, pageId, columnId).cards
                    newCard == cards[Len(cards)]
                IN /\ ColumnIdsByPage(after.workspace) = ColumnIdsByPage(workspace)
                   /\ CardsByColumn(after.workspace) =
                         [CardsByColumn(workspace) EXCEPT
                             ![pi + 1][ci + 1] = Append(@, newCard)]
                   /\ newCard.id \notin CardIds(workspace)
                   /\ newCard.title = text.title
                   /\ newCard.status = "todo"
                   /\ newCard.tags = <<>>
                   /\ newCard.metadata = <<>>
                   /\ newCard.description =
                         IF "description" \in DOMAIN text THEN text.description ELSE ""
                   /\ newCard.columnId = columnAt(State, pageId, columnId).id

\* C19 happens: on a page of two columns or more, a column that holds a card
\* gets another one from a call that gives no description; the first card
\* stays first and the new one is last.
C19_Witness ==
    \E pageId \in PageArgs, columnId \in ColumnArgs :
        /\ columnFound(State, pageId, columnId)
        /\ Len(columnsOfPage(State, pageId)) >= 2
        /\ Len(columnAt(State, pageId, columnId).cards) >= 1
        /\ LET before == columnAt(State, pageId, columnId).cards
               cards == columnAt(addCard(State, pageId, columnId,
                                         [title |-> "Task"], idCounter, now),
                                 pageId, columnId).cards
           IN /\ Len(cards) = Len(before) + 1
              /\ cards[1] = before[1]
              /\ cards[Len(cards)].description = ""
              /\ cards[Len(cards)].title = "Task"

\* new Date(iso): the date an ISO string stands for
parseISO(iso) == iso[2]

\* A tree read from JSON, each of its ISO strings taken as the date it stands for
WithDatesRead(tree) ==
    [tree EXCEPT
        !.updatedAt = parseISO(@),
        !.pages = [i \in DOMAIN @ |->
            [@[i] EXCEPT
                !.updatedAt = parseISO(@),
                !.board.columns = [j \in DOMAIN @ |->
                    [@[j] EXCEPT
                        !.updatedAt = parseISO(@),
                        !.cards = [k \in DOMAIN @ |->
                            [@[k] EXCEPT !.updatedAt = parseISO(@)]]]]]]]

\* C20: after every mutating store operation the snapshot stored under
\* 'workspace-storage' holds a workspace tree equal to the tree in memory (its
\* dates as ISO strings), is tagged with version 1, and does not contain the
\* selection state selectedCardId.
C20_SnapshotAfterOperation ==
    steps > 0 =>
        /\ "workspace-storage" \in DOMAIN storage
        /\ LET snapshot == storage["workspace-storage"]
           IN /\ WithDatesRead(snapshot.state.workspace) = workspace
              /\ snapshot.version = 1
              /\ "selectedCardId" \notin DOMAIN snapshot.state

\* What C20 says of the tree and of the version holds after every operation
C20_TreeAndVersionWritten ==
    steps > 0 =>
        /\ "workspace-storage" \in DOMAIN storage
        /\ LET snapshot == storage["workspace-storage"]
           IN /\ WithDatesRead(snapshot.state.workspace) = workspace
              /\ snapshot.version = 1

\* The first place, in page order and then column order and then card order,
\* that holds a card called cardId; Null when no place does
FirstCardSlot(ws, cardId) ==
    LET slots == {s \in CardSlots(ws) : CardIn(ws, s).id = cardId}
        before(a, b) == \/ a[1] < b[1]
                        \/ a[1] = b[1] /\ a[2] < b[2]
                        \/ a[1] = b[1] /\ a[2] = b[2] /\ a[3] <= b[3]
    IN IF slots = {} THEN Null
       ELSE CHOOSE s \in slots : \A o \in slots : before(s, o)

\* The first place, in page order and then column order, of a column called
\* columnId; Null when no place holds one
FirstColumnSlot(ws, columnId) ==
    LET slots == {s \in ColumnSlots(ws) :
                     ws.pages[s[1]].board.columns[s[2]].id = columnId}
        before(a, b) == a[1] < b[1] \/ (a[1] = b[1] /\ a[2] <= b[2])
    IN IF slots = {} THEN Null
       ELSE CHOOSE s \in slots : \A o \in slots : before(s, o)

\* C26: findCard(cardId) returns null exactly when no column of any page
\* holds a card with that id; otherwise it returns the first such card in
\* page order, then column order, with the ids of the page and the column
\* that hold it.  findColumn(columnId) likewise returns null exactly when no
\* page holds such a column, and otherwise the first such column with the id
\* of its page.
C26_FindCardAndColumn ==
    /\ \A cardId \in CardArgs :
          LET r == findCard(State, cardId)
              s == FirstCardSlot(workspace, cardId)
          IN /\ (r = Null) <=> (cardId \notin CardIds(workspace))
             /\ (r = Null) <=> (s = Null)
             /\ r # Null =>
                   /\ r.card = CardIn(workspace, s)
                   /\ r.card.id = cardId
                   /\ r.pageId = workspace.pages[s[1]].id
                   /\ r.columnId = workspace.pages[s[1]].board.columns[s[2]].id
    /\ \A columnId \in ColumnArgs :
          LET r == findColumn(State, columnId)
              s == FirstColumnSlot(workspace, columnId)
          IN /\ (r = Null) <=> (columnId \notin ColumnIds(workspace))
             /\ (r = Null) <=> (s = Null)
             /\ r # Null =>
                   /\ r.column = workspace.pages[s[1]].board.columns[s[2]]
                   /\ r.column.id = columnId
                   /\ r.pageId = workspace.pages[s[1]].id

\* A card whose columnId field names another column than the one that holds
\* it: findCard reports the page and the column that hold it
C26_Witness ==
    \E s \in CardSlots(workspace) :
        LET card == CardIn(workspace, s)
            r == findCard(State, card.id)
        IN /\ r # Null
           /\ r.pageId = workspace.pages[s[1]].id
           /\ r.columnId = workspace.pages[s[1]].board.columns[s[2]].id
           /\ r.columnId # card.columnId
           /\ findCard(State, GhostId) = Null
           /\ findColumn(State, r.columnId).pageId = r.pageId

\* C27: with a clock that never goes back, in every reachable state every
\* card is no newer than the column that holds it, every column no newer than
\* its page and every page no newer than the workspace:
\* card.updatedAt <= column.updatedAt <= page.updatedAt <= workspace.updatedAt.
C27_TimestampHierarchy ==
    /\ \A i \in DOMAIN workspace.pages :
          workspace.pages[i].updatedAt <= workspace.updatedAt
    /\ \A s \in ColumnSlots(workspace) :
          workspace.pages[s[1]].board.columns[s[2]].updatedAt
              <= workspace.pages[s[1]].updatedAt
    /\ \A s \in CardSlots(workspace) :
          CardIn(workspace, s).updatedAt
              <= workspace.pages[s[1]].board.columns[s[2]].updatedAt

\* After the clock has advanced: a card older than the workspace that holds
\* it, under a column and a page that a later operation has refreshed
C27_Witness ==
    \E s \in CardSlots(workspace) :
        /\ CardIn(workspace, s).updatedAt < workspace.updatedAt
        /\ workspace.pages[s[1]].board.columns[s[2]].updatedAt = workspace.updatedAt
        /\ workspace.pages[s[1]].updatedAt = workspace.updatedAt
        /\ Len(workspace.pages[s[1]].board.columns[s[2]].cards) > 1

\* Every operation other than setSelectedCardId and removeCard, on all the
\* arguments a caller may pass, leaves selectedCardId as it was
C28_OnlyTwoChangeSelection ==
    LET kept(after) == after.selectedCardId = selectedCardId
    IN /\ \A title \in WorkspaceTitles : kept(setWorkspaceTitle(State, title, now))
       /\ \A title \in PageTitles, icon \in Icons :
             kept(addPage(State, title, icon, idCounter, now))
       /\ \A pageId \in PageArgs :
             /\ kept(removePage(State, pageId, now))
             /\ kept(setActivePage(State, pageId, now))
             /\ \A title \in PageTitles : kept(renamePage(State, pageId, title, now))
             /\ \A icon \in Icons : kept(updatePageIcon(State, pageId, icon, now))
             /\ \A title \in ColumnTitles :
                   kept(addColumn(State, pageId, title, idCounter, now))
             /\ \A columnId \in ColumnArgs :
                   /\ kept(removeColumn(State, pageId, columnId, now))
                   /\ \A title \in ColumnTitles :
                         kept(renameColumn(State, pageId, columnId, title, now))
                   /\ \A targetIndex \in IndexArgs :
                         kept(moveColumn(State, pageId, columnId, targetIndex, now))
                   /\ \A text \in CardTexts :
                         kept(addCard(State, pageId, columnId, text, idCounter, now))
                   /\ \A cardId \in CardArgs, updates \in Updates :
                         kept(updateCard(State, pageId, columnId, cardId, updates, now))
       /\ \A source \in Sources, target \in Targets :
             kept(moveCard(State, source, target, now))

\* The selected card is held by the column columnId of the page pageId
selectedIn(state, pageId, columnId) ==
    /\ columnFound(state, pageId, columnId)
    /\ findIndex(columnAt(state, pageId, columnId).cards, state.selectedCardId) # -1

\* The selected card is held by some column of the page pageId
selectedOn(state, pageId) ==
    /\ pageFound(state, pageId)
    /\ \E c \in Range(At(state.workspace.pages,
                          findIndex(state.workspace.pages, pageId)).board.columns) :
          findIndex(c.cards, state.selectedCardId) # -1

\* After the call selectedCardId is what it was and names no card
Dangling(after) ==
    /\ after.selectedCardId = selectedCardId
    /\ after.selectedCardId \notin CardIds(after.workspace)

\* removeColumn, removePage and a moveCard that drops the card, called on the
\* column or page that holds the selected card, leave a dangling selection
C28_RemovalsLeaveDangling ==
    /\ \A pageId \in PageArgs, columnId \in ColumnArgs :
          selectedIn(State, pageId, columnId)
              => Dangling(removeColumn(State, pageId, columnId, now))
    /\ \A pageId \in PageArgs :
          selectedOn(State, pageId) => Dangling(removePage(State, pageId, now))
    /\ \A source \in Sources, target \in Targets :
          (/\ source.cardId = selectedCardId
           /\ sourceFound(State, source)
           /\ ~columnFound(State, target.pageId, target.columnId))
              => Dangling(moveCard(State, source, target, now))

\* C28: selectedCardId is changed only by setSelectedCardId and removeCard;
\* every other operation leaves it unchanged, so removeColumn, removePage and
\* a moveCard that drops the card leave selectedCardId naming a card that is
\* no longer in the workspace when the selected card was inside the removed
\* column or page.
C28_SelectionFrame ==
    /\ C28_OnlyTwoChangeSelection
    /\ C28_RemovalsLeaveDangling

\* The same while no two cards share an id
C28_WhileCardIdsUnique ==
    UniqueCardIds(workspace) => C28_SelectionFrame

\* The default starter workspace: one page 'Welcome' that is the active page,
\* one column 'To Do', one card 'Welcome to your workspace' in that column
IsStarterWorkspace(ws) ==
    /\ Len(ws.pages) = 1
    /\ ws.pages[1].title = "Welcome"
    /\ ws.activePageId = ws.pages[1].id
    /\ Len(ws.pages[1].board.columns) = 1
    /\ ws.pages[1].board.columns[1].title = "To Do"
    /\ Len(ws.pages[1].board.columns[1].cards) = 1
    /\ ws.pages[1].board.columns[1].cards[1].title = "Welcome to your workspace"
    /\ ws.pages[1].board.columns[1].cards[1].columnId = ws.pages[1].board.columns[1].id

\* The storage at hand with its snapshot carrying the version v
StorageWithVersion(v) == [storage EXCEPT ![persistName].version = v]

\* C21: at startup, if a snapshot of version 1 is present the store's
\* workspace equals the snapshot's workspace; if no snapshot is present or
\* its version is not the store's, the store holds the default starter
\* workspace.
C21_Rehydration ==
    /\ \A v \in SnapshotVersions :
          LET stored == StorageWithVersion(v)
              started == createStore(stored, idCounter, now)
          IN IF v = 1
             THEN started.workspace = stored[persistName].state.workspace
             ELSE IsStarterWorkspace(started.workspace)
    /\ IsStarterWorkspace(createStore(EmptyStorage, idCounter, now).workspace)

\* A snapshot of a workspace with a second page: a start over it holds the
\* two pages, a start over the same snapshot under version 2 the starter
C21_Witness ==
    /\ Len(storage[persistName].state.workspace.pages) = 2
    /\ storage[persistName].version = 1
    /\ Len(createStore(storage, idCounter, now).workspace.pages) = 2
    /\ createStore(storage, idCounter, now).workspace.pages[2].title = "Roadmap"
    /\ Len(createStore(StorageWithVersion(2), idCounter, now).workspace.pages) = 1

\* The file the JSON export of the workspace downloads, no selectedPages and
\* no dateRange given
ExportedFile ==
    LET options == CHOOSE o \in ExportOptions : "selectedPages" \notin DOMAIN o
    IN exportAsJSON(prepareExportData(workspace, options, now))

\* C30: for every workspace reachable through the store operations, with any
\* titles the operations accept (empty strings too), importWorkspace applied
\* to the file produced by the JSON export with no selectedPages and no
\* dateRange succeeds, and its imported counts are the workspace's numbers of
\* pages, columns and cards.
C30_ExportImportRoundTrip ==
    \A options \in ImportOptions :
        LET outcome == importWorkspace(ExportedFile, options)
        IN /\ outcome.status = "resolved"
           /\ outcome.result.success
           /\ outcome.result.imported.pages = Len(workspace.pages)
           /\ outcome.result.imported.columns = Cardinality(ColumnSlots(workspace))
           /\ outcome.result.imported.cards = NumCards(workspace)

\* The same while every page has a title that is not the empty string
C30_WhilePageTitlesNonEmpty ==
    (\A page \in PagesOf(workspace) : page.title # "") => C30_ExportImportRoundTrip

\* C24: importWorkspace never fails past the adapter boundary: for every file
\* (unreadable, not valid JSON, JSON failing the shape check, or JSON passing
\* the shape check with a column that lacks a cards array) the promise
\* resolves rather than rejects, and in each of these failure cases the
\* result has success = false, imported counts 0, no conflicts and a message
\* starting with 'Import failed: '.
C24_ImportNeverRejects ==
    importCall # Null =>
        /\ importCall.outcome.status = "resolved"
        /\ importCall.file \in FailingFiles =>
              /\ importCall.outcome.result.success = FALSE
              /\ importCall.outcome.result.imported =
                     [pages |-> 0, columns |-> 0, cards |-> 0]
              /\ importCall.outcome.result.conflicts = <<>>
              /\ importCall.outcome.result.message[1] = "Import failed: "

\* An import of a file that passes the shape check and has a column without
\* a cards array has resolved with the failure result
C24_Witness ==
    /\ importCall # Null
    /\ importCall.file \in CardlessColumnFiles
    /\ validateImportData(importCall.file.value) = Returned(TRUE)
    /\ importCall.outcome.status = "resolved"
    /\ importCall.outcome.result.success = FALSE

\* C25: importWorkspace and restoreFromBackup, successful or not, leave the
\* workspace store as it was, and their result for a given file is the same
\* for every mergeStrategy ('replace', 'merge', 'skip') and every preserveIds.
C25_ImportLeavesStore ==
    importCall # Null =>
        /\ workspace = createStore(EmptyStorage, 1, 0).workspace
        /\ selectedCardId = Null
        /\ storage = (persistName :> setItem(createStore(EmptyStorage, 1, 0)))
                         @@ (themePersistName :> themeSetItem("system"))
        /\ \A options \in ImportOptions :
              /\ importWorkspace(importCall.file, options) = importCall.outcome
              /\ restoreFromBackup(importCall.file) = importCall.outcome

\* A successful import under the strategy 'skip' that has counted two pages,
\* the store still holding its one page
C25_Witness ==
    /\ importCall # Null
    /\ "options" \in DOMAIN importCall
    /\ importCall.options.mergeStrategy = "skip"
    /\ importCall.outcome.result.success
    /\ importCall.outcome.result.imported.pages = 2
    /\ Len(workspace.pages) = 1

\* C22: the resolved theme is a function of the stored preference and the OS
\* preference only: getResolvedTheme returns the stored theme when it is
\* 'light' or 'dark', and 'dark' or 'light' as the OS prefers when it is
\* 'system'; two calls that read the same stored preference and the same OS
\* preference return the same theme.
C22_ResolvedThemeIsFunction ==
    resolvedCall # Null =>
        /\ resolvedCall.theme \in {"light", "dark"} =>
              resolvedCall.result = resolvedCall.theme
        /\ resolvedCall.theme = "system" =>
              resolvedCall.result = (IF resolvedCall.matches THEN "dark" ELSE "light")
        /\ (resolvedCall.theme = theme /\ resolvedCall.matches = prefersDark) =>
              resolvedCall.result = getResolvedTheme(theme, prefersDark)

\* A call under 'system' while the OS prefers dark, with a document that has
\* since been set to light
C22_Witness ==
    /\ resolvedCall # Null
    /\ resolvedCall.theme = "system"
    /\ resolvedCall.matches
    /\ resolvedCall.result = "dark"
    /\ dataTheme = "light"

\* C23: once initializeTheme has run, under any interleaving of setTheme
\* calls and OS color-scheme changes the theme applied to the document is
\* getResolvedTheme of the current stored preference and the current OS
\* preference after each event: while the preference is 'system' an OS
\* change is applied at once, while it is 'light' or 'dark' an OS change
\* does not alter the applied theme.
C23_LiveThemeTracking ==
    changeListeners > 0 =>
        /\ dataTheme = getResolvedTheme(theme, prefersDark)
        /\ darkClass = (dataTheme = "dark")
        /\ theme \in {"light", "dark"} => dataTheme = theme
        /\ theme = "system" => dataTheme = (IF prefersDark THEN "dark" ELSE "light")

\* The OS has changed to dark since a call that read light, the preference
\* is 'system' and the document is dark
C23_Witness ==
    /\ resolvedCall # Null
    /\ ~resolvedCall.matches
    /\ resolvedCall.theme = "system"
    /\ theme = "system"
    /\ prefersDark
    /\ dataTheme = "dark"
    /\ darkClass

\* C29: after leaveRoom() returns, getUsers() is empty, getCurrentUser() is
\* null and no registered listener is notified of any event until the next
\* joinRoom, under every interleaving of joinRoom, leaveRoom and the callback
\* of the 1-second timer that joinRoom schedules.
C29_LeaveIsFinal ==
    roomId = Null =>
        /\ users = {}
        /\ currentUser = Null
        /\ notified = {}

\* What does hold after leaveRoom: no current user, and no user other than
\* the mock users the timer's callback adds
C29_OnlyTheTimerBreaksIt ==
    roomId = Null =>
        /\ currentUser = Null
        /\ users \subseteq MockUsers
        /\ notified # {} => users = MockUsers

====
